---------------------------- MODULE Spec2Model ----------------------------
(***************************************************************************)
(* A model of the prowl client library (src/src/lib.rs).                   *)
(*                                                                         *)
(* A Rust String is modelled as the sequence of its UTF-8 bytes (numbers   *)
(* in 0..255), so that String::len is Len.  An Option<T> is a sequence of  *)
(* at most one element: None is << >> and Some(x) is <<x>>.                *)
(*                                                                         *)
(* The state machine is a caller that constructs one Notification with     *)
(* Notification::new and then calls add on it, possibly several times and  *)
(* with several calls suspended at the await of send() at once.  The HTTP  *)
(* client and the server are the environment: every request that was       *)
(* issued is answered by a status code or fails in transport.              *)
(***************************************************************************)
EXTENDS Integers, Sequences, FiniteSets

(***************************************************************************)
(* Program constants, lib.rs lines 5-8.                                    *)
(***************************************************************************)
MAX_URL_LEN == 512
MAX_APP_LEN == 256
MAX_EVENT_LEN == 1024
MAX_DESC_LEN == 10000

(***************************************************************************)
(* Bounds of the model.                                                    *)
(***************************************************************************)
\* The number of add calls the caller makes on the Notification.
MaxAdds == 2

(***************************************************************************)
(* Option<T>.                                                              *)
(***************************************************************************)
None == << >>
Some(x) == <<x>>
IsSome(o) == Len(o) = 1
Unwrap(o) == o[1]

(***************************************************************************)
(* Sequences of sequences.  Flatten concatenates the pieces in order; it   *)
(* halves its argument so that the depth of evaluation stays logarithmic   *)
(* in the number of pieces (a description has up to 10000 bytes).          *)
(***************************************************************************)
RECURSIVE Flatten(_)
Flatten(ss) ==
    IF Len(ss) = 0 THEN << >>
    ELSE IF Len(ss) = 1 THEN ss[1]
    ELSE LET h == Len(ss) \div 2
         IN  Flatten(SubSeq(ss, 1, h)) \o Flatten(SubSeq(ss, h + 1, Len(ss)))

\* The function f on 1..n as a sequence (the same value; TLC then holds it as
\* a tuple, which it indexes in constant time).
AsSeq(f) == << >> \o f

\* s followed by copies of byte c up to length n (s itself when Len(s) >= n).
Pad(s, c, n) ==
    IF Len(s) >= n THEN s
    ELSE AsSeq([i \in 1..n |-> IF i <= Len(s) THEN s[i] ELSE c])

\* n copies of the string s.
Rep(s, n) == AsSeq([i \in 1..(n * Len(s)) |-> s[((i - 1) % Len(s)) + 1]])

(***************************************************************************)
(* Priority, lib.rs lines 25-31, and Priority::as_i8, lines 65-73.         *)
(***************************************************************************)
Priority == {"VeryLow", "Moderate", "Normal", "High", "Emergency"}

\* A variant that gives Emergency the code of High.
as_i8_emergency_as_high(self) ==
    CASE self = "VeryLow" -> -2
      [] self = "Moderate" -> -1
      [] self = "Normal" -> 0
      [] self = "High" -> 1
      [] self = "Emergency" -> 1

as_i8(self) ==
    CASE self = "VeryLow" -> -2
      [] self = "Moderate" -> -1
      [] self = "Normal" -> 0
      [] self = "High" -> 1
      [] self = "Emergency" -> 2

(***************************************************************************)
(* Display of an i8 by "{}" (lib.rs line 170): an optional '-' and the     *)
(* decimal digits, most significant first, with no leading zeros.          *)
(***************************************************************************)
RECURSIVE Digits(_)
Digits(n) ==
    IF n < 10 THEN <<48 + n>> ELSE Digits(n \div 10) \o <<48 + (n % 10)>>

DisplayI8(n) == IF n < 0 THEN <<45>> \o Digits(-n) ELSE Digits(n)

(***************************************************************************)
(* urlencoding::encode, called at lib.rs lines 154-156 and 165: every byte *)
(* other than an ASCII letter, a digit, '-', '_', '.' and '~' becomes '%'  *)
(* and its two upper-case hexadecimal digits.                              *)
(***************************************************************************)
IsAlnum(b) == (b >= 48 /\ b <= 57) \/ (b >= 65 /\ b <= 90) \/ (b >= 97 /\ b <= 122)

IsUnreserved(b) == IsAlnum(b) \/ b \in {45, 95, 46, 126}

HexDigit(v) == IF v < 10 THEN 48 + v ELSE 55 + v

EncodeByte(b) ==
    IF IsUnreserved(b) THEN <<b>>
    ELSE <<37, HexDigit(b \div 16), HexDigit(b % 16)>>

Encode(s) == Flatten(AsSeq([i \in 1..Len(s) |-> EncodeByte(s[i])]))

(***************************************************************************)
(* Result<T, E>: Ok(v) or Err(e).                                          *)
(***************************************************************************)
Ok(v) == [ok |-> TRUE, val |-> <<v>>, err |-> << >>]
Err(e) == [ok |-> FALSE, val |-> << >>, err |-> <<e>>]

(***************************************************************************)
(* CreationError, lib.rs lines 49-62: each variant carries a usize.        *)
(***************************************************************************)
InvalidUrlLength(n) == [kind |-> "InvalidUrlLength", len |-> n]
ApplicationLength(n) == [kind |-> "ApplicationLength", len |-> n]
EventLength(n) == [kind |-> "EventLength", len |-> n]
DescriptionLength(n) == [kind |-> "DescriptionLength", len |-> n]

(***************************************************************************)
(* AddError, lib.rs lines 35-45.  Api carries the response, Send the       *)
(* reqwest::Error.  (Format carries the fmt::Error of a failed write!; the *)
(* write! of lib.rs lines 159-170 append to a String, which never fails.)  *)
(***************************************************************************)
Api(res) == [kind |-> "Api", response |-> <<res>>, source |-> << >>]
Send(error) == [kind |-> "Send", response |-> << >>, source |-> <<error>>]

\* impl From<reqwest::Error> for AddError, lib.rs lines 192-196.
from_reqwest_error(error) == Send(error)

(***************************************************************************)
(* The struct Notification, lib.rs lines 12-20.                            *)
(***************************************************************************)
NotificationOf(api_keys, priority, url, application, event, description) ==
    [api_keys |-> api_keys, priority |-> priority, url |-> url,
     application |-> application, event |-> event, description |-> description]

(***************************************************************************)
(* Notification::new, lib.rs lines 96-130, and variants of it: one that    *)
(* refuses a field of exactly the maximal length, one that reports the     *)
(* limit in place of the length, and one that checks the event first.      *)
(***************************************************************************)
new_refuses_limit(api_keys, priority, url, application, event, description) ==
    IF Len(application) >= MAX_APP_LEN
    THEN Err(ApplicationLength(Len(application)))
    ELSE IF Len(event) >= MAX_EVENT_LEN
    THEN Err(EventLength(Len(event)))
    ELSE IF Len(description) >= MAX_DESC_LEN
    THEN Err(DescriptionLength(Len(description)))
    ELSE IF IsSome(url) /\ Len(Unwrap(url)) >= MAX_URL_LEN
    THEN Err(InvalidUrlLength(Len(Unwrap(url))))
    ELSE Ok(NotificationOf(api_keys, priority, url, application, event, description))

new_reports_limit(api_keys, priority, url, application, event, description) ==
    IF Len(application) > MAX_APP_LEN
    THEN Err(ApplicationLength(MAX_APP_LEN))
    ELSE IF Len(event) > MAX_EVENT_LEN
    THEN Err(EventLength(MAX_EVENT_LEN))
    ELSE IF Len(description) > MAX_DESC_LEN
    THEN Err(DescriptionLength(MAX_DESC_LEN))
    ELSE IF IsSome(url) /\ Len(Unwrap(url)) > MAX_URL_LEN
    THEN Err(InvalidUrlLength(MAX_URL_LEN))
    ELSE Ok(NotificationOf(api_keys, priority, url, application, event, description))

new_event_first(api_keys, priority, url, application, event, description) ==
    IF Len(event) > MAX_EVENT_LEN
    THEN Err(EventLength(Len(event)))
    ELSE IF Len(application) > MAX_APP_LEN
    THEN Err(ApplicationLength(Len(application)))
    ELSE IF Len(description) > MAX_DESC_LEN
    THEN Err(DescriptionLength(Len(description)))
    ELSE IF IsSome(url) /\ Len(Unwrap(url)) > MAX_URL_LEN
    THEN Err(InvalidUrlLength(Len(Unwrap(url))))
    ELSE Ok(NotificationOf(api_keys, priority, url, application, event, description))

new(api_keys, priority, url, application, event, description) ==
    IF Len(application) > MAX_APP_LEN
    THEN Err(ApplicationLength(Len(application)))
    ELSE IF Len(event) > MAX_EVENT_LEN
    THEN Err(EventLength(Len(event)))
    ELSE IF Len(description) > MAX_DESC_LEN
    THEN Err(DescriptionLength(Len(description)))
    ELSE IF IsSome(url) /\ Len(Unwrap(url)) > MAX_URL_LEN
    THEN Err(InvalidUrlLength(Len(Unwrap(url))))
    ELSE Ok(NotificationOf(api_keys, priority, url, application, event, description))

(***************************************************************************)
(* [String]::join, used at lib.rs line 159: the strings in order with the  *)
(* separator between each two.                                             *)
(***************************************************************************)
RECURSIVE join(_, _)
join(strings, sep) ==
    IF Len(strings) = 0 THEN << >>
    ELSE IF Len(strings) = 1 THEN strings[1]
    ELSE strings[1] \o sep \o join(Tail(strings), sep)

\* write!(url, ...) on a String, lib.rs lines 159-170: appends, and is Ok.
write(url, text) == url \o text

(***************************************************************************)
(* The URL that Notification::add builds, lib.rs lines 154-171, and        *)
(* variants of it: one that writes the priority before the url, and one    *)
(* that writes the description as it is.                                   *)
(*   "https://prowl.weks.net/publicapi/add"  "?apikey="  ","               *)
(*   "&application="  "&event="  "&description="  "&url="  "&priority="    *)
(***************************************************************************)
add_url_priority_first(self) ==
    LET safe_application == Encode(self.application)
        safe_event == Encode(self.event)
        safe_description == Encode(self.description)
        url0 == <<104, 116, 116, 112, 115, 58, 47, 47, 112, 114, 111, 119, 108,
                  46, 119, 101, 107, 115, 46, 110, 101, 116, 47, 112, 117, 98,
                  108, 105, 99, 97, 112, 105, 47, 97, 100, 100>>
        url1 == write(url0, <<63, 97, 112, 105, 107, 101, 121, 61>>
                            \o join(self.api_keys, <<44>>))
        url2 == write(url1, <<38, 97, 112, 112, 108, 105, 99, 97, 116, 105, 111,
                              110, 61>> \o safe_application)
        url3 == write(url2, <<38, 101, 118, 101, 110, 116, 61>> \o safe_event)
        url4 == write(url3, <<38, 100, 101, 115, 99, 114, 105, 112, 116, 105, 111,
                              110, 61>> \o safe_description)
        url5 == IF IsSome(self.priority)
                THEN write(url4, <<38, 112, 114, 105, 111, 114, 105, 116, 121, 61>>
                                 \o DisplayI8(as_i8(Unwrap(self.priority))))
                ELSE url4
        url6 == IF IsSome(self.url)
                THEN write(url5, <<38, 117, 114, 108, 61>>
                                 \o Encode(Unwrap(self.url)))
                ELSE url5
    IN  url6

add_url_raw_description(self) ==
    LET safe_application == Encode(self.application)
        safe_event == Encode(self.event)
        url0 == <<104, 116, 116, 112, 115, 58, 47, 47, 112, 114, 111, 119, 108,
                  46, 119, 101, 107, 115, 46, 110, 101, 116, 47, 112, 117, 98,
                  108, 105, 99, 97, 112, 105, 47, 97, 100, 100>>
        url1 == write(url0, <<63, 97, 112, 105, 107, 101, 121, 61>>
                            \o join(self.api_keys, <<44>>))
        url2 == write(url1, <<38, 97, 112, 112, 108, 105, 99, 97, 116, 105, 111,
                              110, 61>> \o safe_application)
        url3 == write(url2, <<38, 101, 118, 101, 110, 116, 61>> \o safe_event)
        url4 == write(url3, <<38, 100, 101, 115, 99, 114, 105, 112, 116, 105, 111,
                              110, 61>> \o self.description)
        url5 == IF IsSome(self.url)
                THEN LET safe_notification_url == Encode(Unwrap(self.url))
                     IN  write(url4, <<38, 117, 114, 108, 61>>
                                     \o safe_notification_url)
                ELSE url4
        url6 == IF IsSome(self.priority)
                THEN write(url5, <<38, 112, 114, 105, 111, 114, 105, 116, 121, 61>>
                                 \o DisplayI8(as_i8(Unwrap(self.priority))))
                ELSE url5
    IN  url6

add_url(self) ==
    LET safe_application == Encode(self.application)
        safe_event == Encode(self.event)
        safe_description == Encode(self.description)
        url0 == <<104, 116, 116, 112, 115, 58, 47, 47, 112, 114, 111, 119, 108,
                  46, 119, 101, 107, 115, 46, 110, 101, 116, 47, 112, 117, 98,
                  108, 105, 99, 97, 112, 105, 47, 97, 100, 100>>
        url1 == write(url0, <<63, 97, 112, 105, 107, 101, 121, 61>>
                            \o join(self.api_keys, <<44>>))
        url2 == write(url1, <<38, 97, 112, 112, 108, 105, 99, 97, 116, 105, 111,
                              110, 61>> \o safe_application)
        url3 == write(url2, <<38, 101, 118, 101, 110, 116, 61>> \o safe_event)
        url4 == write(url3, <<38, 100, 101, 115, 99, 114, 105, 112, 116, 105, 111,
                              110, 61>> \o safe_description)
        url5 == IF IsSome(self.url)
                THEN LET safe_notification_url == Encode(Unwrap(self.url))
                     IN  write(url4, <<38, 117, 114, 108, 61>>
                                     \o safe_notification_url)
                ELSE url4
        url6 == IF IsSome(self.priority)
                THEN write(url5, <<38, 112, 114, 105, 111, 114, 105, 116, 121, 61>>
                                 \o DisplayI8(as_i8(Unwrap(self.priority))))
                ELSE url5
    IN  url6

(***************************************************************************)
(* The rest of add, lib.rs lines 175-182, after the await.  `sent` is the  *)
(* Result of client.post(url).send(): Ok of a response, which has a status *)
(* code, or Err of a reqwest::Error, which `?` converts and returns.       *)
(* A variant takes every 2xx status for success.                           *)
(***************************************************************************)
add_result_any_2xx(sent) ==
    IF ~sent.ok THEN Err(from_reqwest_error(Unwrap(sent.err)))
    ELSE LET res == Unwrap(sent.val)
         IN  IF res.status < 200 \/ res.status > 299
             THEN Err(Api(res))
             ELSE Ok("unit")

add_result(sent) ==
    IF ~sent.ok THEN Err(from_reqwest_error(Unwrap(sent.err)))
    ELSE LET res == Unwrap(sent.val)
         IN  IF res.status # 200
             THEN Err(Api(res))
             ELSE Ok("unit")

(***************************************************************************)
(* The requests on the wire once add has the outcome of its request:       *)
(* lib.rs lines 176-182 issue nothing more.  A variant posts again when    *)
(* the request did not succeed.                                            *)
(***************************************************************************)
requests_after_retry(sent_requests, request, sent) ==
    IF sent.ok /\ Unwrap(sent.val).status = 200
    THEN sent_requests
    ELSE Append(sent_requests, request)

requests_after(sent_requests, request, sent) == sent_requests

(***************************************************************************)
(* add borrows the Notification (&self, lib.rs line 153): the call leaves  *)
(* it as it is.  A variant keeps the built URL in the field url.           *)
(***************************************************************************)
self_after_add_keeps_url(self) == [self EXCEPT !.url = Some(add_url(self))]

self_after_add(self) == self

(***************************************************************************)
(* The inputs of the caller.  Strings are written as their bytes:          *)
(*   AppText "App", EvtText "Evt", SafeText "-_.~Az09",                    *)
(*   SpecialText "a b&c=%41" followed by U+00E9 (two bytes in UTF-8),      *)
(*   LinkText "http://x.y/?q=1&r=" followed by U+00E9,                     *)
(*   AccentText U+00E9, and the keys "AAA", "BBB" and "k&url=x#".          *)
(***************************************************************************)
AppText == <<65, 112, 112>>
EvtText == <<69, 118, 116>>
SafeText == <<45, 95, 46, 126, 65, 122, 48, 57>>
SpecialText == <<97, 32, 98, 38, 99, 61, 37, 52, 49, 195, 169>>
LinkText == <<104, 116, 116, 112, 58, 47, 47, 120, 46, 121, 47, 63, 113, 61,
              49, 38, 114, 61, 195, 169>>
AccentText == <<195, 169>>

KeyLists ==
    { << >>,
      << <<65, 65, 65>>, <<66, 66, 66>> >>,
      << <<107, 38, 117, 114, 108, 61, 120, 35>> >> }

PriorityOptions == {None} \cup {Some(p) : p \in Priority}

\* A text of exactly n bytes, for n at and just above a maximal length.
LongText(n) == Pad(SpecialText, 120, n)

\* Short fields, with every list of keys and every priority.
ShortInputs ==
    { NotificationOf(k, p, u, a, e, d) :
        k \in KeyLists, p \in PriorityOptions, u \in {None, Some(LinkText)},
        a \in {AppText, SpecialText}, e \in {EvtText, SafeText},
        d \in {SpecialText} }

\* Every field at its maximal length or one byte above it (the application
\* also as 128 and as 129 two-byte characters), the url also absent.
LongInputs ==
    { NotificationOf(<< <<65, 65, 65>>, <<66, 66, 66>> >>, Some("High"), u, a, e, d) :
        u \in {None, Some(LongText(MAX_URL_LEN)), Some(LongText(MAX_URL_LEN + 1))},
        a \in {LongText(MAX_APP_LEN), LongText(MAX_APP_LEN + 1),
               Rep(AccentText, 128), Rep(AccentText, 129)},
        e \in {LongText(MAX_EVENT_LEN), LongText(MAX_EVENT_LEN + 1)},
        d \in {LongText(MAX_DESC_LEN), LongText(MAX_DESC_LEN + 1)} }

Inputs == ShortInputs \cup LongInputs

\* What client.post(url).send().await gives: a response with a status code, or
\* a reqwest::Error when no response was received.
StatusCodes == {200, 204, 500}
SendResults ==
    {Ok([status |-> s]) : s \in StatusCodes} \cup {Err("connection refused")}

(***************************************************************************)
(* The state.                                                              *)
(*   args          the arguments of the call of Notification::new, if made *)
(*   result        what that call returned, if made                        *)
(*   notification  the Notification the caller holds, if it got one        *)
(*   calls         the calls of add, in the order they were made: each     *)
(*                 awaits its request or has returned                      *)
(*   requests      the HTTP requests issued, in the order of issue         *)
(***************************************************************************)
VARIABLES args, result, notification, calls, requests

vars == <<args, result, notification, calls, requests>>

Init ==
    /\ args = None
    /\ result = None
    /\ notification = None
    /\ calls = << >>
    /\ requests = << >>

\* The caller calls Notification::new and keeps the Notification of an Ok.
New ==
    /\ args = None
    /\ \E a \in Inputs :
         LET r == new(a.api_keys, a.priority, a.url,
                      a.application, a.event, a.description)
         IN  /\ args' = Some(a)
             /\ result' = Some(r)
             /\ notification' = r.val
    /\ UNCHANGED <<calls, requests>>

\* A call of add up to its await, lib.rs lines 153-176: the URL is built and
\* the request is issued.
AddSend ==
    /\ IsSome(notification)
    /\ Len(calls) < MaxAdds
    /\ LET self == Unwrap(notification)
           request == [call |-> Len(calls) + 1, method |-> "POST",
                       url |-> add_url(self)]
       IN  /\ requests' = Append(requests, request)
           /\ calls' = Append(calls, [state |-> "awaiting", request |-> request,
                                      sent |-> None, ret |-> None])
           /\ notification' = Some(self_after_add(self))
    /\ UNCHANGED <<args, result>>

\* Call i of add resumes with the outcome of its request and returns,
\* lib.rs lines 176-182.
Resume(i, sent) ==
    /\ calls[i].state = "awaiting"
    /\ calls' = [calls EXCEPT ![i] = [state |-> "returned",
                                      request |-> calls[i].request,
                                      sent |-> Some(sent),
                                      ret |-> Some(add_result(sent))]]
    /\ requests' = requests_after(requests, calls[i].request, sent)
    /\ notification' = Some(self_after_add(Unwrap(notification)))
    /\ UNCHANGED <<args, result>>

\* The server answers the request of a call.
AddResponse ==
    \E i \in DOMAIN calls : \E s \in StatusCodes : Resume(i, Ok([status |-> s]))

\* The request of a call fails with no response.
AddSendFailure ==
    \E i \in DOMAIN calls : Resume(i, Err("connection refused"))

Next == New \/ AddSend \/ AddResponse \/ AddSendFailure

Spec == Init /\ [][Next]_vars

(***************************************************************************)
(* The URL of add as a function of the Notification: only the first call   *)
(* of add is made, up to the request.                                      *)
(***************************************************************************)
FirstAddSend == calls = << >> /\ AddSend

NextUrl == New \/ FirstAddSend

SpecUrl == Init /\ [][NextUrl]_vars

(***************************************************************************)
(* Properties of Notification::new.                                        *)
(***************************************************************************)

\* The limits as the documentation states them: 256, 1024, 10000 and 512.
AppTooLong(a) == Len(a.application) > 256
EventTooLong(a) == Len(a.event) > 1024
DescTooLong(a) == Len(a.description) > 10000
UrlTooLong(a) == a.url # None /\ Len(Unwrap(a.url)) > 512

\* What an Err of new with the given variant and length looks like.
IsCreationError(r, kind, n) ==
    /\ ~r.ok
    /\ r.val = None
    /\ r.err = <<[kind |-> kind, len |-> n]>>

\* C1: when the application has at most 256 bytes, the event at most 1024,
\* the description at most 10000 and the url is absent or has at most 512,
\* new returns Ok of a Notification whose priority, url, application, event,
\* description and list of keys are the arguments.
C1_ValidInputsConstruct ==
    IsSome(args) =>
        LET a == Unwrap(args)
            r == Unwrap(result)
        IN  (~AppTooLong(a) /\ ~EventTooLong(a) /\ ~DescTooLong(a) /\ ~UrlTooLong(a))
            => /\ r.ok
               /\ r.err = None
               /\ Len(r.val) = 1
               /\ Unwrap(r.val).api_keys = a.api_keys
               /\ Unwrap(r.val).priority = a.priority
               /\ Unwrap(r.val).url = a.url
               /\ Unwrap(r.val).application = a.application
               /\ Unwrap(r.val).event = a.event
               /\ Unwrap(r.val).description = a.description

\* C1's case: every field is exactly at its limit and new returned Ok.
C1_Witness ==
    /\ IsSome(args)
    /\ Len(Unwrap(args).application) = 256
    /\ Len(Unwrap(args).event) = 1024
    /\ Len(Unwrap(args).description) = 10000
    /\ Unwrap(args).url # None
    /\ Len(Unwrap(Unwrap(args).url)) = 512
    /\ Unwrap(result).ok

\* C2: with the other three fields valid, an application of n > 256 bytes
\* gives Err(ApplicationLength(n)), an event of n > 1024 Err(EventLength(n)),
\* a description of n > 10000 Err(DescriptionLength(n)) and a url of n > 512
\* Err(InvalidUrlLength(n)); n is the length in bytes of the argument, and
\* the caller gets no Notification.
C2_SingleViolation ==
    IsSome(args) =>
        LET a == Unwrap(args)
            r == Unwrap(result)
        IN  /\ (AppTooLong(a) /\ ~EventTooLong(a) /\ ~DescTooLong(a) /\ ~UrlTooLong(a))
               => /\ IsCreationError(r, "ApplicationLength", Len(a.application))
                  /\ notification = None
            /\ (~AppTooLong(a) /\ EventTooLong(a) /\ ~DescTooLong(a) /\ ~UrlTooLong(a))
               => /\ IsCreationError(r, "EventLength", Len(a.event))
                  /\ notification = None
            /\ (~AppTooLong(a) /\ ~EventTooLong(a) /\ DescTooLong(a) /\ ~UrlTooLong(a))
               => /\ IsCreationError(r, "DescriptionLength", Len(a.description))
                  /\ notification = None
            /\ (~AppTooLong(a) /\ ~EventTooLong(a) /\ ~DescTooLong(a) /\ UrlTooLong(a))
               => /\ IsCreationError(r, "InvalidUrlLength", Len(Unwrap(a.url)))
                  /\ notification = None

\* C2's case: an application of 129 two-byte characters (258 bytes) with the
\* other fields at their limits was refused with ApplicationLength(258).
C2_Witness ==
    /\ IsSome(args)
    /\ Unwrap(args).application = Rep(AccentText, 129)
    /\ Len(Unwrap(args).event) = 1024
    /\ Len(Unwrap(args).description) = 10000
    /\ Unwrap(args).url # None
    /\ Len(Unwrap(Unwrap(args).url)) = 512
    /\ IsCreationError(Unwrap(result), "ApplicationLength", 258)

\* The fields over their limit, in the order application, event,
\* description, url.
Violations(a) ==
    (IF AppTooLong(a) THEN <<"ApplicationLength">> ELSE << >>)
    \o (IF EventTooLong(a) THEN <<"EventLength">> ELSE << >>)
    \o (IF DescTooLong(a) THEN <<"DescriptionLength">> ELSE << >>)
    \o (IF UrlTooLong(a) THEN <<"InvalidUrlLength">> ELSE << >>)

LengthFor(a, kind) ==
    CASE kind = "ApplicationLength" -> Len(a.application)
      [] kind = "EventLength" -> Len(a.event)
      [] kind = "DescriptionLength" -> Len(a.description)
      [] kind = "InvalidUrlLength" -> Len(Unwrap(a.url))

\* C3: when several fields are over their limits, new returns the one error
\* of the first of them in the order application, event, description, url,
\* and no Notification.
C3_FirstViolationReported ==
    IsSome(args) =>
        LET a == Unwrap(args)
            r == Unwrap(result)
            v == Violations(a)
        IN  Len(v) >= 2
            => /\ IsCreationError(r, v[1], LengthFor(a, v[1]))
               /\ Len(r.err) = 1
               /\ notification = None

\* C3's case: description and url are both too long, application and event
\* are not, and the error is DescriptionLength.
C3_Witness ==
    /\ IsSome(args)
    /\ Violations(Unwrap(args)) = <<"DescriptionLength", "InvalidUrlLength">>
    /\ IsCreationError(Unwrap(result), "DescriptionLength", 10001)

\* C10: every Notification that new returned holds at least one API key.
C10_KeysNonEmpty ==
    IsSome(notification) => Len(Unwrap(notification).api_keys) >= 1

(***************************************************************************)
(* Properties of the outcome of add.                                       *)
(***************************************************************************)

\* C4: a call of add that returned gave Ok(()) when the response had status
\* 200, Err(Api(response)) when it had another status, and Err(Send(error))
\* when the request failed with no response; it gave Ok only for status 200.
C4_ResultFollowsOutcome ==
    \A i \in DOMAIN calls :
        calls[i].state = "returned" =>
            LET sent == Unwrap(calls[i].sent)
                ret == Unwrap(calls[i].ret)
            IN  /\ (sent.ok /\ Unwrap(sent.val).status = 200)
                   => (ret.ok /\ ret.err = None)
                /\ (sent.ok /\ Unwrap(sent.val).status # 200)
                   => /\ ~ret.ok
                      /\ Len(ret.err) = 1
                      /\ Unwrap(ret.err).kind = "Api"
                      /\ Unwrap(ret.err).response = sent.val
                /\ ~sent.ok
                   => /\ ~ret.ok
                      /\ Len(ret.err) = 1
                      /\ Unwrap(ret.err).kind = "Send"
                      /\ Unwrap(ret.err).source = sent.err
                /\ ret.ok => (sent.ok /\ Unwrap(sent.val).status = 200)

\* C4's case: one call got a 204 and returned the Api error with that
\* response, another got no response and returned the Send error.
C4_Witness ==
    /\ \E i \in DOMAIN calls :
          /\ calls[i].state = "returned"
          /\ Unwrap(calls[i].sent).ok
          /\ Unwrap(Unwrap(calls[i].sent).val).status = 204
          /\ ~Unwrap(calls[i].ret).ok
          /\ Unwrap(Unwrap(calls[i].ret).err).kind = "Api"
    /\ \E j \in DOMAIN calls :
          /\ calls[j].state = "returned"
          /\ ~Unwrap(calls[j].sent).ok
          /\ Unwrap(Unwrap(calls[j].ret).err).kind = "Send"

\* C8: every call of add has issued exactly one request, a POST, whether it
\* still awaits the response or has returned, and a call that has returned
\* has returned a value; so n calls that returned have issued n requests.
C8_OneRequestPerCall ==
    /\ Len(requests) = Len(calls)
    /\ \A i \in DOMAIN calls :
          /\ Cardinality({k \in DOMAIN requests : requests[k].call = i}) = 1
          /\ calls[i].state = "returned" => Len(calls[i].ret) = 1
    /\ \A k \in DOMAIN requests :
          /\ requests[k].method = "POST"
          /\ requests[k].call \in DOMAIN calls

\* C8's case: two calls returned, one after a transport failure and one
\* after a 500, and two requests were issued.
C8_Witness ==
    /\ Len(calls) = 2
    /\ \A i \in DOMAIN calls : calls[i].state = "returned"
    /\ \E i \in DOMAIN calls : ~Unwrap(calls[i].sent).ok
    /\ \E i \in DOMAIN calls :
          /\ Unwrap(calls[i].sent).ok
          /\ Unwrap(Unwrap(calls[i].sent).val).status = 500
    /\ Len(requests) = 2

(***************************************************************************)
(* Properties of the URL of a request.                                     *)
(***************************************************************************)

\* The keys in list order with a ',' before every key but the first.
KeysWithCommas(keys) ==
    Flatten(AsSeq([i \in 1..Len(keys) |->
                     IF i = 1 THEN keys[i] ELSE <<44>> \o keys[i]]))

\* The integer of a priority as the documentation lists it, in decimal:
\* "-2", "-1", "0", "1", "2".
PriorityText(p) ==
    CASE p = "VeryLow" -> <<45, 50>>
      [] p = "Moderate" -> <<45, 49>>
      [] p = "Normal" -> <<48>>
      [] p = "High" -> <<49>>
      [] p = "Emergency" -> <<50>>

\* "https://prowl.weks.net/publicapi/add?apikey=" and the keys.
UrlUpToKeys(n) ==
    <<104, 116, 116, 112, 115, 58, 47, 47, 112, 114, 111, 119, 108, 46, 119, 101,
      107, 115, 46, 110, 101, 116, 47, 112, 117, 98, 108, 105, 99, 97, 112, 105,
      47, 97, 100, 100, 63, 97, 112, 105, 107, 101, 121, 61>>
    \o KeysWithCommas(n.api_keys)

\* The URL the documentation gives for the Notification n.
DocumentedUrl(n) ==
    UrlUpToKeys(n)
    \o <<38, 97, 112, 112, 108, 105, 99, 97, 116, 105, 111, 110, 61>>
    \o Encode(n.application)
    \o <<38, 101, 118, 101, 110, 116, 61>>
    \o Encode(n.event)
    \o <<38, 100, 101, 115, 99, 114, 105, 112, 116, 105, 111, 110, 61>>
    \o Encode(n.description)
    \o (IF n.url # None
        THEN <<38, 117, 114, 108, 61>> \o Encode(Unwrap(n.url))
        ELSE << >>)
    \o (IF n.priority # None
        THEN <<38, 112, 114, 105, 111, 114, 105, 116, 121, 61>>
             \o PriorityText(Unwrap(n.priority))
        ELSE << >>)

\* C5: the URL of a request is "https://prowl.weks.net/publicapi/add",
\* "?apikey=" and the keys joined by ',' as they are, "&application=",
\* "&event=" and "&description=" with the encoded fields, "&url=" with the
\* encoded url exactly when there is one, then "&priority=" with the integer
\* exactly when there is a priority, and nothing else; the keys "AAA", "BBB"
\* give "?apikey=AAA,BBB".
C5_UrlFormat ==
    \A k \in DOMAIN requests :
        LET n == Unwrap(notification)
            url == requests[k].url
        IN  /\ url = DocumentedUrl(n)
            /\ n.api_keys = << <<65, 65, 65>>, <<66, 66, 66>> >>
               => SubSeq(url, 37, 52)
                  = <<63, 97, 112, 105, 107, 101, 121, 61, 65, 65, 65, 44, 66, 66,
                      66, 38>>

\* C5's case: a request of a Notification with the keys "AAA", "BBB", a url and
\* a priority.
C5_Witness ==
    /\ Len(requests) >= 1
    /\ Unwrap(notification).api_keys = << <<65, 65, 65>>, <<66, 66, 66>> >>
    /\ Unwrap(notification).url # None
    /\ Unwrap(notification).priority # None

(***************************************************************************)
(* The parameters that add wrote after the keys: the rest of the URL is    *)
(* cut at every '&', and every piece at its first '='.  (The keys are      *)
(* written as they are, so the rest is found by their length.)             *)
(***************************************************************************)

\* The places of the byte c in s, in increasing order.
Positions(s, c) ==
    Flatten(AsSeq([i \in 1..Len(s) |-> IF s[i] = c THEN <<i>> ELSE << >>]))

\* The pieces of s between the occurrences of c.
SplitOn(s, c) ==
    LET pos == Positions(s, c)
        n == Len(pos)
    IN  AsSeq([k \in 1..(n + 1) |->
                 SubSeq(s, IF k = 1 THEN 1 ELSE pos[k - 1] + 1,
                           IF k = n + 1 THEN Len(s) ELSE pos[k] - 1)])

\* A piece "name=value" as <<name, value>>.
NameValue(piece) ==
    LET eq == Positions(piece, 61)
    IN  IF eq = << >> THEN <<piece, << >> >>
        ELSE <<SubSeq(piece, 1, eq[1] - 1), SubSeq(piece, eq[1] + 1, Len(piece))>>

WrittenParams(url, n) ==
    LET rest == SubSeq(url, Len(UrlUpToKeys(n)) + 1, Len(url))
        pieces == SplitOn(rest, 38)
    IN  AsSeq([k \in 1..(Len(pieces) - 1) |-> NameValue(pieces[k + 1])])

\* "application", "event", "description", "url", "priority".
NameApplication == <<97, 112, 112, 108, 105, 99, 97, 116, 105, 111, 110>>
NameEvent == <<101, 118, 101, 110, 116>>
NameDescription == <<100, 101, 115, 99, 114, 105, 112, 116, 105, 111, 110>>
NameUrl == <<117, 114, 108>>
NamePriority == <<112, 114, 105, 111, 114, 105, 116, 121>>

\* The values of the parameters called name, in order.
ValuesOf(params, name) ==
    Flatten(AsSeq([k \in 1..Len(params) |->
                     IF params[k][1] = name THEN <<params[k][2]>> ELSE << >>]))

\* C6: the priority parameter of a request is the integer of the priority of
\* the Notification, -2 for VeryLow, -1 for Moderate, 0 for Normal, 1 for
\* High and 2 for Emergency, and is the last parameter; without a priority
\* add writes no priority parameter.
C6_PriorityParameter ==
    \A k \in DOMAIN requests :
        LET n == Unwrap(notification)
            params == WrittenParams(requests[k].url, n)
        IN  IF n.priority = None
            THEN ValuesOf(params, NamePriority) = << >>
            ELSE /\ ValuesOf(params, NamePriority)
                    = <<PriorityText(Unwrap(n.priority))>>
                 /\ params[Len(params)][1] = NamePriority

\* C6's case: requests of Notifications with the priority Emergency ("2").
C6_Witness ==
    /\ Len(requests) >= 1
    /\ Unwrap(notification).priority = Some("Emergency")
    /\ ValuesOf(WrittenParams(requests[1].url, Unwrap(notification)), NamePriority)
       = << <<50>> >>

(***************************************************************************)
(* Percent-decoding: '%' and two hexadecimal digits give the byte they     *)
(* write, every other byte gives itself.  A '%' is never one of the two    *)
(* digits, so where the triples start is read off without a scan.          *)
(***************************************************************************)
IsHex(c) == (c >= 48 /\ c <= 57) \/ (c >= 65 /\ c <= 70) \/ (c >= 97 /\ c <= 102)

HexValue(c) ==
    IF c <= 57 THEN c - 48 ELSE IF c <= 70 THEN c - 55 ELSE c - 87

Decode(e) ==
    LET starts(i) == /\ e[i] = 37
                     /\ i + 2 <= Len(e)
                     /\ IsHex(e[i + 1])
                     /\ IsHex(e[i + 2])
        inside(i) == \/ i > 1 /\ starts(i - 1)
                     \/ i > 2 /\ starts(i - 2)
    IN  Flatten(AsSeq([i \in 1..Len(e) |->
                         IF starts(i)
                         THEN <<16 * HexValue(e[i + 1]) + HexValue(e[i + 2])>>
                         ELSE IF inside(i) THEN << >> ELSE <<e[i]>>]))

\* The names of the parameters written for the Notification n.
DocumentedNames(n) ==
    <<NameApplication, NameEvent, NameDescription>>
    \o (IF n.url # None THEN <<NameUrl>> ELSE << >>)
    \o (IF n.priority # None THEN <<NamePriority>> ELSE << >>)

\* The bytes of s that are not a letter, a digit, '-', '_', '.' or '~'.
EscapedCount(s) ==
    Cardinality({i \in 1..Len(s) :
                   ~(\/ s[i] \in 48..57 \/ s[i] \in 65..90 \/ s[i] \in 97..122
                     \/ s[i] \in {45, 95, 46, 126})})

\* The value is an encoding of the raw string: it decodes to it, and the
\* letters, digits, '-', '_', '.' and '~' of it are written as they are
\* (every other byte takes three bytes, so a string of safe bytes only is
\* its own value).
EncodesTo(value, raw) ==
    /\ Decode(value) = raw
    /\ Len(value) = Len(raw) + 2 * EscapedCount(raw)
    /\ EscapedCount(raw) = 0 => value = raw

\* C7: the parameters add writes are application, event, description and,
\* when there is one, url (then priority, when there is one); the values of
\* the four decode to the fields of the Notification, and the safe bytes of
\* the fields are not encoded.
C7_EncodingRoundTrip ==
    \A k \in DOMAIN requests :
        LET n == Unwrap(notification)
            params == WrittenParams(requests[k].url, n)
        IN  /\ [j \in 1..Len(params) |-> params[j][1]] = DocumentedNames(n)
            /\ EncodesTo(params[1][2], n.application)
            /\ EncodesTo(params[2][2], n.event)
            /\ EncodesTo(params[3][2], n.description)
            /\ n.url # None => EncodesTo(params[4][2], Unwrap(n.url))

\* C7's case: a request of a Notification whose application has a space,
\* '&', '=', '%' and a character outside ASCII, whose event has safe bytes
\* only, and which has a url with '&', '=' and a character outside ASCII.
C7_Witness ==
    /\ Len(requests) >= 1
    /\ Unwrap(notification).application = SpecialText
    /\ Unwrap(notification).description = SpecialText
    /\ Unwrap(notification).event = SafeText
    /\ Unwrap(notification).url = Some(LinkText)
    /\ WrittenParams(requests[1].url, Unwrap(notification))[2][2] = SafeText

(***************************************************************************)
(* Properties of the Notification over its life.                           *)
(***************************************************************************)

\* The lengths of the raw application, event, description and url that the
\* URL carries are within 256, 1024, 10000 and 512.
CarriesWithinLimits(url, n) ==
    LET params == WrittenParams(url, n)
        urls == ValuesOf(params, NameUrl)
    IN  /\ Len(Decode(params[1][2])) <= 256
        /\ Len(Decode(params[2][2])) <= 1024
        /\ Len(Decode(params[3][2])) <= 10000
        /\ \A j \in DOMAIN urls : Len(Decode(urls[j])) <= 512

\* C9: the Notification the caller holds is the one new returned, whatever
\* calls of add were made and however they ended; its application has at
\* most 256 bytes, its event 1024, its description 10000 and its url, if
\* any, 512; all requests made for it have the same URL, and that URL
\* carries fields within these limits.
C9_NotificationUnchanged ==
    IsSome(notification) =>
        LET n == Unwrap(notification)
        IN  /\ notification = Unwrap(result).val
            /\ Len(n.application) <= 256
            /\ Len(n.event) <= 1024
            /\ Len(n.description) <= 10000
            /\ n.url # None => Len(Unwrap(n.url)) <= 512
            /\ \A k \in DOMAIN requests : requests[k].url = requests[1].url
            /\ requests # << >> => CarriesWithinLimits(requests[1].url, n)

\* C9's case: a Notification with every field at its limit after two calls
\* of add, one that succeeded and one that failed.
C9_Witness ==
    /\ IsSome(notification)
    /\ Len(Unwrap(notification).application) = 256
    /\ Len(Unwrap(notification).event) = 1024
    /\ Len(Unwrap(notification).description) = 10000
    /\ Unwrap(notification).url # None
    /\ Len(Unwrap(Unwrap(notification).url)) = 512
    /\ Len(requests) = 2
    /\ Len(calls) = 2
    /\ \E i \in DOMAIN calls :
          calls[i].state = "returned" /\ Unwrap(calls[i].ret).ok
    /\ \E i \in DOMAIN calls :
          calls[i].state = "returned" /\ ~Unwrap(calls[i].ret).ok

=============================================================================
